---- MODULE Spec2Model ----
(***************************************************************************)
(* PayloadHasher (src/src/payload.rs): the Hawk payload hash.              *)
(*                                                                         *)
(* A PayloadHasher owns a ring digest::Context and the Algorithm it was    *)
(* built with.  new feeds the preamble "hawk.1.payload\n", the content     *)
(* type and "\n"; update feeds caller data; finish feeds a trailing "\n",  *)
(* finalizes the context and copies the digest into a Vec of               *)
(* algorithm.output_len bytes; hash is new + update + finish.              *)
(*                                                                         *)
(* The ring crate is not part of the repository.  Its Context is modelled  *)
(* by its contract: the bytes absorbed so far, in order, and finish is the *)
(* algorithm's hash (FIPS 180-4 SHA-1 / SHA-256, computed bit-exactly) of  *)
(* those bytes.                                                            *)
(***************************************************************************)
EXTENDS Integers, Sequences, FiniteSets, TLC

VARIABLES
  phase,        \* slot -> "unborn" | "accumulating" | "finished" (the binding: unset, live, moved)
  hasher,       \* slot -> the live PayloadHasher value, or Moved
  content_type, \* slot -> the content_type argument given to new / hash
  algorithm,    \* slot -> the algorithm argument given to new / hash
  chunks,       \* slot -> the data arguments of the update calls so far, in call order
  result,       \* slot -> what finish / hash returned (NoResult before)
  via           \* slot -> "manual" (new, update.., finish) or "hash" (the one-shot call)

vars == <<phase, hasher, content_type, algorithm, chunks, result, via>>

(***************************************************************************)
(* Bounds of the model.                                                    *)
(***************************************************************************)
MaxUpdates == 2      \* update calls per hasher explored by Spec
PairMaxUpdates == 1  \* update calls per hasher explored by SpecPair

(***************************************************************************)
(* Bytes-like arguments (B: AsRef<[u8]>).  A &str argument is a sequence   *)
(* of Unicode scalar values and as_ref() yields its UTF-8 encoding; a      *)
(* Vec<u8> / &[u8] argument yields its bytes.                              *)
(***************************************************************************)
Str(chars) == [kind |-> "str", val |-> chars]
Bytes(bytes) == [kind |-> "bytes", val |-> bytes]

Utf8Char(c) ==
  IF c < 128 THEN <<c>>
  ELSE IF c < 2048 THEN <<192 + (c \div 64), 128 + (c % 64)>>
  ELSE IF c < 65536 THEN <<224 + (c \div 4096), 128 + ((c \div 64) % 64), 128 + (c % 64)>>
  ELSE <<240 + (c \div 262144), 128 + ((c \div 4096) % 64), 128 + ((c \div 64) % 64), 128 + (c % 64)>>

RECURSIVE Utf8(_)
Utf8(chars) == IF chars = <<>> THEN <<>> ELSE Utf8Char(Head(chars)) \o Utf8(Tail(chars))

(***************************************************************************)
(* ring::digest, 32-bit words as <<high 16 bits, low 16 bits>> (TLC's      *)
(* integers are 32-bit signed).                                            *)
(***************************************************************************)
Half == 65536

Pow2(n) == <<1, 2, 4, 8, 16, 32, 64, 128, 256, 512, 1024, 2048, 4096, 8192, 16384, 32768, 65536>>[n + 1]

\* And4[a + 1][b + 1] is the bitwise AND of the 4-bit numbers a and b.
And4 ==
   <<
      <<0, 0, 0, 0, 0, 0, 0, 0, 0, 0, 0, 0, 0, 0, 0, 0>>,
      <<0, 1, 0, 1, 0, 1, 0, 1, 0, 1, 0, 1, 0, 1, 0, 1>>,
      <<0, 0, 2, 2, 0, 0, 2, 2, 0, 0, 2, 2, 0, 0, 2, 2>>,
      <<0, 1, 2, 3, 0, 1, 2, 3, 0, 1, 2, 3, 0, 1, 2, 3>>,
      <<0, 0, 0, 0, 4, 4, 4, 4, 0, 0, 0, 0, 4, 4, 4, 4>>,
      <<0, 1, 0, 1, 4, 5, 4, 5, 0, 1, 0, 1, 4, 5, 4, 5>>,
      <<0, 0, 2, 2, 4, 4, 6, 6, 0, 0, 2, 2, 4, 4, 6, 6>>,
      <<0, 1, 2, 3, 4, 5, 6, 7, 0, 1, 2, 3, 4, 5, 6, 7>>,
      <<0, 0, 0, 0, 0, 0, 0, 0, 8, 8, 8, 8, 8, 8, 8, 8>>,
      <<0, 1, 0, 1, 0, 1, 0, 1, 8, 9, 8, 9, 8, 9, 8, 9>>,
      <<0, 0, 2, 2, 0, 0, 2, 2, 8, 8, 10, 10, 8, 8, 10, 10>>,
      <<0, 1, 2, 3, 0, 1, 2, 3, 8, 9, 10, 11, 8, 9, 10, 11>>,
      <<0, 0, 0, 0, 4, 4, 4, 4, 8, 8, 8, 8, 12, 12, 12, 12>>,
      <<0, 1, 0, 1, 4, 5, 4, 5, 8, 9, 8, 9, 12, 13, 12, 13>>,
      <<0, 0, 2, 2, 4, 4, 6, 6, 8, 8, 10, 10, 12, 12, 14, 14>>,
      <<0, 1, 2, 3, 4, 5, 6, 7, 8, 9, 10, 11, 12, 13, 14, 15>>
   >>

And8(a, b) == And4[(a % 16) + 1][(b % 16) + 1] + 16 * And4[(a \div 16) + 1][(b \div 16) + 1]
And16(a, b) == And8(a % 256, b % 256) + 256 * And8(a \div 256, b \div 256)
Xor16(a, b) == a + b - 2 * And16(a, b)

WXor(x, y) == <<Xor16(x[1], y[1]), Xor16(x[2], y[2])>>
WAnd(x, y) == <<And16(x[1], y[1]), And16(x[2], y[2])>>
WNot(x) == <<Half - 1 - x[1], Half - 1 - x[2]>>
WAdd(x, y) ==
  LET lo == x[2] + y[2]
  IN  <<(x[1] + y[1] + (lo \div Half)) % Half, lo % Half>>

Rotr(x, n) ==
  LET y == IF n >= 16 THEN <<x[2], x[1]>> ELSE x
      m == IF n >= 16 THEN n - 16 ELSE n
      p == Pow2(m)
      q == Pow2(16 - m)
  IN  IF m = 0 THEN y
      ELSE <<(y[1] \div p) + (y[2] % p) * q, (y[2] \div p) + (y[1] % p) * q>>

Rotl(x, n) == Rotr(x, 32 - n)

Shr(x, n) ==
  LET p == Pow2(n)
      q == Pow2(16 - n)
  IN  <<x[1] \div p, (x[2] \div p) + (x[1] % p) * q>>

Ch(x, y, z) == WXor(WAnd(x, y), WAnd(WNot(x), z))
Maj(x, y, z) == WXor(WXor(WAnd(x, y), WAnd(x, z)), WAnd(y, z))
Parity(x, y, z) == WXor(WXor(x, y), z)
BigSigma0(x) == WXor(WXor(Rotr(x, 2), Rotr(x, 13)), Rotr(x, 22))
BigSigma1(x) == WXor(WXor(Rotr(x, 6), Rotr(x, 11)), Rotr(x, 25))
SmallSigma0(x) == WXor(WXor(Rotr(x, 7), Rotr(x, 18)), Shr(x, 3))
SmallSigma1(x) == WXor(WXor(Rotr(x, 17), Rotr(x, 19)), Shr(x, 10))

Zeros(n) == [i \in 1..n |-> 0]

\* Merkle-Damgard padding: 0x80, zeros up to 56 mod 64, the bit length as 64 bits big-endian.
Pad(msg) ==
  LET n == Len(msg)
      z == (119 - (n % 64)) % 64
      bits == n * 8
  IN  msg \o <<128>> \o Zeros(z) \o <<0, 0, 0, 0>>
          \o <<(bits \div 16777216) % 256, (bits \div 65536) % 256,
               (bits \div 256) % 256, bits % 256>>

BlockWords(blk) ==
  [i \in 1..16 |-> <<blk[4 * i - 3] * 256 + blk[4 * i - 2],
                     blk[4 * i - 1] * 256 + blk[4 * i]>>]

RECURSIVE WordBytes(_)
WordBytes(ws) ==
  IF ws = <<>> THEN <<>>
  ELSE LET x == Head(ws)
       IN  <<x[1] \div 256, x[1] % 256, x[2] \div 256, x[2] % 256>> \o WordBytes(Tail(ws))

(* ------------------------------ SHA-256 -------------------------------- *)
K256 ==
   <<
      <<17034, 12184>>, <<28983, 17553>>, <<46528, 64463>>, <<59829, 56229>>,
      <<14678, 49755>>, <<23025, 4593>>, <<37439, 33444>>, <<43804, 24277>>,
      <<55303, 43672>>, <<4739, 23297>>, <<9265, 34238>>, <<21772, 32195>>,
      <<29374, 23924>>, <<32990, 45566>>, <<39900, 1703>>, <<49563, 61812>>,
      <<58523, 27073>>, <<61374, 18310>>, <<4033, 40390>>, <<9228, 41420>>,
      <<11753, 11375>>, <<19060, 33962>>, <<23728, 43484>>, <<30457, 35034>>,
      <<38974, 20818>>, <<43057, 50797>>, <<45059, 10184>>, <<48985, 32711>>,
      <<50912, 3059>>, <<54695, 37191>>, <<1738, 25425>>, <<5161, 10599>>,
      <<10167, 2693>>, <<11803, 8504>>, <<19756, 28156>>, <<21304, 3347>>,
      <<25866, 29524>>, <<30314, 2747>>, <<33218, 51502>>, <<37490, 11397>>,
      <<41663, 59553>>, <<43034, 26187>>, <<49739, 35696>>, <<51052, 20899>>,
      <<53650, 59417>>, <<54937, 1572>>, <<62478, 13701>>, <<4202, 41072>>,
      <<6564, 49430>>, <<7735, 27656>>, <<10056, 30540>>, <<13488, 48309>>,
      <<14620, 3251>>, <<20184, 43594>>, <<23452, 51791>>, <<26670, 28659>>,
      <<29839, 33518>>, <<30885, 25455>>, <<33992, 30740>>, <<36039, 520>>,
      <<37054, 65530>>, <<42064, 27883>>, <<48889, 41975>>, <<50801, 30962>>
   >>

H256 ==
   <<
      <<27145, 58983>>, <<47975, 44677>>, <<15470, 62322>>, <<42319, 62778>>,
      <<20750, 21119>>, <<39685, 26764>>, <<8067, 55723>>, <<23520, 52505>>
   >>

Sha256Extend(w) ==
  LET t == Len(w) + 1
  IN  Append(w, WAdd(WAdd(SmallSigma1(w[t - 2]), w[t - 7]),
                     WAdd(SmallSigma0(w[t - 15]), w[t - 16])))

\* n more words of the message schedule (split in halves: the evaluation stays shallow).
RECURSIVE Sha256Schedule(_, _)
Sha256Schedule(w, n) ==
  IF Len(w) < 16 \/ n = 0 THEN w
  ELSE IF n = 1 THEN Sha256Extend(w)
  ELSE Sha256Schedule(Sha256Schedule(w, n \div 2), n - (n \div 2))

Sha256Round(s, w, t) ==
  LET t1 == WAdd(WAdd(WAdd(s[8], BigSigma1(s[5])), WAdd(Ch(s[5], s[6], s[7]), K256[t])), w[t])
      t2 == WAdd(BigSigma0(s[1]), Maj(s[1], s[2], s[3]))
  IN  <<WAdd(t1, t2), s[1], s[2], s[3], WAdd(s[4], t1), s[5], s[6], s[7]>>

\* rounds lo..hi on the working variables s = <<a, .., h>>
RECURSIVE Sha256Rounds(_, _, _, _)
Sha256Rounds(s, w, lo, hi) ==
  IF Len(s) # 8 \/ lo > hi THEN s
  ELSE IF lo = hi THEN Sha256Round(s, w, lo)
  ELSE Sha256Rounds(Sha256Rounds(s, w, lo, (lo + hi) \div 2), w, ((lo + hi) \div 2) + 1, hi)

Sha256Compress(h, blk) ==
  LET w == Sha256Schedule(BlockWords(blk), 48)
      s == Sha256Rounds(h, w, 1, 64)
  IN  <<WAdd(h[1], s[1]), WAdd(h[2], s[2]), WAdd(h[3], s[3]), WAdd(h[4], s[4]),
        WAdd(h[5], s[5]), WAdd(h[6], s[6]), WAdd(h[7], s[7]), WAdd(h[8], s[8])>>

RECURSIVE Sha256Blocks(_, _)
Sha256Blocks(h, m) ==
  IF m = <<>> THEN h
  ELSE Sha256Blocks(Sha256Compress(h, SubSeq(m, 1, 64)), SubSeq(m, 65, Len(m)))

Sha256(msg) == WordBytes(Sha256Blocks(H256, Pad(msg)))

(* ------------------------------- SHA-1 --------------------------------- *)
H1 == <<<<26437, 8961>>, <<61389, 43913>>, <<39098, 56574>>, <<4146, 21622>>, <<50130, 57840>>>>

K1(t) ==
  IF t <= 20 THEN <<23170, 31129>>
  ELSE IF t <= 40 THEN <<28377, 60321>>
  ELSE IF t <= 60 THEN <<36635, 48348>>
  ELSE <<51810, 49622>>

F1(t, x, y, z) ==
  IF t <= 20 THEN Ch(x, y, z)
  ELSE IF t <= 40 THEN Parity(x, y, z)
  ELSE IF t <= 60 THEN Maj(x, y, z)
  ELSE Parity(x, y, z)

Sha1Extend(w) ==
  LET t == Len(w) + 1
  IN  Append(w, Rotl(WXor(WXor(w[t - 3], w[t - 8]), WXor(w[t - 14], w[t - 16])), 1))

RECURSIVE Sha1Schedule(_, _)
Sha1Schedule(w, n) ==
  IF Len(w) < 16 \/ n = 0 THEN w
  ELSE IF n = 1 THEN Sha1Extend(w)
  ELSE Sha1Schedule(Sha1Schedule(w, n \div 2), n - (n \div 2))

Sha1Round(s, w, t) ==
  LET temp == WAdd(WAdd(WAdd(Rotl(s[1], 5), F1(t, s[2], s[3], s[4])), WAdd(s[5], K1(t))), w[t])
  IN  <<temp, s[1], Rotl(s[2], 30), s[3], s[4]>>

\* rounds lo..hi on the working variables s = <<a, .., e>>
RECURSIVE Sha1Rounds(_, _, _, _)
Sha1Rounds(s, w, lo, hi) ==
  IF Len(s) # 5 \/ lo > hi THEN s
  ELSE IF lo = hi THEN Sha1Round(s, w, lo)
  ELSE Sha1Rounds(Sha1Rounds(s, w, lo, (lo + hi) \div 2), w, ((lo + hi) \div 2) + 1, hi)

Sha1Compress(h, blk) ==
  LET w == Sha1Schedule(BlockWords(blk), 64)
      s == Sha1Rounds(h, w, 1, 80)
  IN  <<WAdd(h[1], s[1]), WAdd(h[2], s[2]), WAdd(h[3], s[3]), WAdd(h[4], s[4]),
        WAdd(h[5], s[5])>>

RECURSIVE Sha1Blocks(_, _)
Sha1Blocks(h, m) ==
  IF m = <<>> THEN h
  ELSE Sha1Blocks(Sha1Compress(h, SubSeq(m, 1, 64)), SubSeq(m, 65, Len(m)))

Sha1(msg) == WordBytes(Sha1Blocks(H1, Pad(msg)))

(* ------------------- ring::digest, as payload.rs uses it ---------------- *)
SHA1 == [id |-> "SHA1", output_len |-> 20]
SHA256 == [id |-> "SHA256", output_len |-> 32]
NoAlgorithm == [id |-> "none", output_len |-> 0]

AlgorithmHash(alg, msg) == IF alg.id = "SHA256" THEN Sha256(msg) ELSE Sha1(msg)

\* digest::Context::new(algorithm): nothing absorbed yet.
Context_new(alg) == [algorithm |-> alg, input |-> <<>>]

\* Context::update(&mut self, data): absorbs data after what was absorbed before.
Context_update(ctx, data) == [ctx EXCEPT !.input = @ \o data]

\* Context::finish(self) -> Digest, and Digest::as_ref(): the first output_len bytes of the value.
Context_finish(ctx) == [algorithm |-> ctx.algorithm, value |-> AlgorithmHash(ctx.algorithm, ctx.input)]
Digest_as_ref(digest) == SubSeq(digest.value, 1, digest.algorithm.output_len)

\* <[u8]>::clone_from_slice panics when the two slices differ in length.
Returned(bytes, fed) == [status |-> "ok", bytes |-> bytes, fed |-> fed]
Panicked(fed) == [status |-> "panic", bytes |-> <<>>, fed |-> fed]
NoResult == [status |-> "none", bytes |-> <<>>, fed |-> <<>>]

(* ----------------------------- PayloadHasher ---------------------------- *)
\* variant: the marker of Hawk's header normalization, b"hawk.1.header\n"
HawkHeaderMarker == Bytes(<<104, 97, 119, 107, 46, 49, 46, 104, 101, 97, 100, 101, 114, 10>>)
\* b"hawk.1.payload\n"
HawkPreamble == Bytes(<<104, 97, 119, 107, 46, 49, 46, 112, 97, 121, 108, 111, 97, 100, 10>>)
\* b"\n"
Newline == Bytes(<<10>>)

\* variant: a str taken char by char as single bytes instead of its UTF-8 encoding
AsRef_Latin1(b) == IF b.kind = "str" THEN [i \in 1..Len(b.val) |-> b.val[i] % 256] ELSE b.val
\* data.as_ref()
AsRef(b) == IF b.kind = "str" THEN Utf8(b.val) ELSE b.val

\* variant: every update call also terminates its chunk with "\n"
update_Delimited(self, data) ==
  [self EXCEPT !.context = Context_update(Context_update(@, AsRef(data)), <<10>>)]
\* pub fn update<B>(&mut self, data: B)
PayloadHasher_update(self, data) ==
  [self EXCEPT !.context = Context_update(@, AsRef(data))]

\* variant: the content type is fed before the marker
new_ContentTypeFirst(ct, alg) ==
  LET hasher0 == [context |-> Context_new(alg), algorithm |-> alg]
  IN  PayloadHasher_update(
        PayloadHasher_update(
          PayloadHasher_update(hasher0, Bytes(AsRef(ct))), HawkPreamble), Newline)
\* variant: the content type is not fed at all
new_IgnoresContentType(ct, alg) ==
  LET hasher0 == [context |-> Context_new(alg), algorithm |-> alg]
  IN  PayloadHasher_update(PayloadHasher_update(hasher0, HawkPreamble), Newline)
\* variant: no "\n" after the content type
new_NoSeparator(ct, alg) ==
  LET hasher0 == [context |-> Context_new(alg), algorithm |-> alg]
  IN  PayloadHasher_update(PayloadHasher_update(hasher0, HawkPreamble), Bytes(AsRef(ct)))
\* pub fn new<B>(content_type: B, algorithm: &'static digest::Algorithm) -> Self
PayloadHasher_new(ct, alg) ==
  LET hasher0 == [context |-> Context_new(alg), algorithm |-> alg]
  IN  PayloadHasher_update(
        PayloadHasher_update(
          PayloadHasher_update(hasher0, HawkPreamble), Bytes(AsRef(ct))), Newline)

\* The context that finish finalizes: self after self.update(b"\n").
FinalContext(self) == PayloadHasher_update(self, Newline).context

\* variant: finish finalizes the context as it is, without the trailing "\n"
finish_NoTrailingNewline(self) ==
  LET digest == Context_finish(self.context)
      rv == Zeros(self.algorithm.output_len)
  IN  IF Len(rv) = Len(Digest_as_ref(digest))
      THEN Returned(Digest_as_ref(digest), self.context.input)
      ELSE Panicked(self.context.input)
\* variant: the returned Vec is allocated with SHA-256's 32 bytes whatever the algorithm
finish_FixedLen(self) ==
  LET ctx == FinalContext(self)
      digest == Context_finish(ctx)
      rv == Zeros(32)
  IN  IF Len(rv) = Len(Digest_as_ref(digest))
      THEN Returned(Digest_as_ref(digest), ctx.input)
      ELSE Panicked(ctx.input)
\* pub fn finish(mut self) -> Vec<u8>; fed records the bytes the finalized context had absorbed
PayloadHasher_finish(self) ==
  LET ctx == FinalContext(self)
      digest == Context_finish(ctx)
      rv == Zeros(self.algorithm.output_len)
  IN  IF Len(rv) = Len(Digest_as_ref(digest))
      THEN Returned(Digest_as_ref(digest), ctx.input)
      ELSE Panicked(ctx.input)

\* variant: the one-shot call forgets to feed the payload
hash_SkipsPayload(ct, alg, payload) ==
  PayloadHasher_finish(PayloadHasher_new(ct, alg))
\* pub fn hash<B1, B2>(content_type: B1, algorithm, payload: B2) -> Vec<u8>
PayloadHasher_hash(ct, alg, payload) ==
  PayloadHasher_finish(PayloadHasher_update(PayloadHasher_new(ct, alg), payload))

(* ------------------------------ the callers ----------------------------- *)
Slots == {1, 2}
NoHasher == [context |-> Context_new(NoAlgorithm), algorithm |-> NoAlgorithm]

TextPlain == Str(<<116, 101, 120, 116, 47, 112, 108, 97, 105, 110>>)   \* "text/plain"
FixtureBytes == <<112, 195, 160, 121, 108, 111, 97, 100>>             \* "pàyload" as UTF-8

Algorithms == {SHA1, SHA256}

\* Spec: one hasher, the inputs of tests::hash_consistency and edge cases around them.
ContentTypes == {TextPlain, Str(<<97>>), Bytes(<<97, 10>>)}
Chunks ==
  { Bytes(<<>>),
    Str(<<112, 224, 121>>),                        \* "pày"
    Str(<<108, 111, 97, 100>>),                    \* "load"
    Str(<<112, 224, 121, 108, 111, 97, 100>>),     \* "pàyload"
    Bytes(FixtureBytes),
    Bytes(<<10>>) }

\* SpecPair: two hashers side by side, small inputs.
PairContentTypes == {Str(<<97>>), Str(<<98>>)}
PairChunks == {Str(<<224>>), Bytes(<<195, 160>>)}

Init ==
  /\ phase = [i \in Slots |-> "unborn"]
  /\ hasher = [i \in Slots |-> NoHasher]
  /\ content_type = [i \in Slots |-> Bytes(<<>>)]
  /\ algorithm = [i \in Slots |-> NoAlgorithm]
  /\ chunks = [i \in Slots |-> <<>>]
  /\ result = [i \in Slots |-> NoResult]
  /\ via = [i \in Slots |-> "none"]

\* let mut hasher = PayloadHasher::new(ct, alg);
New(i, ct, alg) ==
  /\ phase[i] = "unborn"
  /\ phase' = [phase EXCEPT ![i] = "accumulating"]
  /\ hasher' = [hasher EXCEPT ![i] = PayloadHasher_new(ct, alg)]
  /\ content_type' = [content_type EXCEPT ![i] = ct]
  /\ algorithm' = [algorithm EXCEPT ![i] = alg]
  /\ via' = [via EXCEPT ![i] = "manual"]
  /\ UNCHANGED <<chunks, result>>

\* hasher.update(data);  (max bounds the calls explored)
Update(i, data, max) ==
  /\ phase[i] = "accumulating"
  /\ Len(chunks[i]) < max
  /\ hasher' = [hasher EXCEPT ![i] = PayloadHasher_update(@, data)]
  /\ chunks' = [chunks EXCEPT ![i] = Append(@, data)]
  /\ UNCHANGED <<phase, content_type, algorithm, result, via>>

\* variant: finish borrows the hasher (&mut self) and leaves it usable
FinishKeepsHasher(i) ==
  /\ phase[i] = "accumulating"
  /\ result' = [result EXCEPT ![i] = PayloadHasher_finish(hasher[i])]
  /\ hasher' = [hasher EXCEPT ![i] = PayloadHasher_update(@, Newline)]
  /\ UNCHANGED <<phase, content_type, algorithm, chunks, via>>
\* let rv = hasher.finish();  finish takes self by value: the hasher is moved out.
Finish(i) ==
  /\ phase[i] = "accumulating"
  /\ result' = [result EXCEPT ![i] = PayloadHasher_finish(hasher[i])]
  /\ hasher' = [hasher EXCEPT ![i] = NoHasher]
  /\ phase' = [phase EXCEPT ![i] = "finished"]
  /\ UNCHANGED <<content_type, algorithm, chunks, via>>

\* let rv = PayloadHasher::hash(ct, alg, payload);  no hasher is left behind.
Hash(i, ct, alg, payload) ==
  /\ phase[i] = "unborn"
  /\ result' = [result EXCEPT ![i] = PayloadHasher_hash(ct, alg, payload)]
  /\ phase' = [phase EXCEPT ![i] = "finished"]
  /\ content_type' = [content_type EXCEPT ![i] = ct]
  /\ algorithm' = [algorithm EXCEPT ![i] = alg]
  /\ chunks' = [chunks EXCEPT ![i] = <<payload>>]
  /\ via' = [via EXCEPT ![i] = "hash"]
  /\ UNCHANGED hasher

Next ==
  \/ \E ct \in ContentTypes, alg \in Algorithms : New(1, ct, alg)
  \/ \E data \in Chunks : Update(1, data, MaxUpdates)
  \/ Finish(1)
  \/ \E ct \in ContentTypes, alg \in Algorithms, payload \in Chunks : Hash(1, ct, alg, payload)

Spec == Init /\ [][Next]_vars

NextPair ==
  \E i \in Slots :
    \/ \E ct \in PairContentTypes, alg \in Algorithms : New(i, ct, alg)
    \/ \E data \in PairChunks : Update(i, data, PairMaxUpdates)
    \/ Finish(i)
    \/ \E ct \in PairContentTypes, alg \in Algorithms, payload \in PairChunks : Hash(i, ct, alg, payload)

SpecPair == Init /\ [][NextPair]_vars

(***************************************************************************)
(* What the properties talk about.                                         *)
(***************************************************************************)
\* the bytes an argument stands for: a text stands for its UTF-8 encoding
Encoded(b) == IF b.kind = "str" THEN Utf8(b.val) ELSE b.val

RECURSIVE Concat(_)
Concat(datas) == IF datas = <<>> THEN <<>> ELSE Encoded(Head(datas)) \o Concat(Tail(datas))

\* the payload bytes slot i was given, whatever the chunking
Payload(i) == Concat(chunks[i])

\* "hawk.1.payload\n" ++ ct ++ "\n" ++ payload ++ "\n", written out byte by byte
Canonical(ct, payload) ==
  <<104, 97, 119, 107, 46, 49, 46, 112, 97, 121, 108, 111, 97, 100, 10>> \o ct \o <<10>> \o payload \o <<10>>

Finished(i) == phase[i] = "finished"
Manual(i) == via[i] = "manual"

\* C1: when finish finalizes the digest, the bytes fed to it are exactly
\* "hawk.1.payload\n" ++ ct ++ "\n" ++ d1 ++ .. ++ dn ++ "\n", and finish returns
\* the raw digest of that sequence under the hasher's algorithm.
C1_CanonicalDigest ==
  \A i \in Slots :
    Finished(i) /\ Manual(i) =>
      /\ result[i].status = "ok"
      /\ result[i].fed = Canonical(Encoded(content_type[i]), Payload(i))
      /\ result[i].bytes = AlgorithmHash(algorithm[i], Canonical(Encoded(content_type[i]), Payload(i)))

C1_Witness ==
  /\ Finished(1) /\ Manual(1)
  /\ Len(chunks[1]) = 2
  /\ Len(Encoded(chunks[1][1])) > 0 /\ Len(Encoded(chunks[1][2])) > 0
  /\ result[1].status = "ok"

\* C2: chunking invariance: after any sequence of update calls the hasher is in the
\* state of a hasher built with the same content type and algorithm that received
\* the concatenation in one update call, and finish returns the same digest.
C2_ChunkingInvariance ==
  \A i \in Slots :
    LET single == PayloadHasher_update(PayloadHasher_new(content_type[i], algorithm[i]),
                                       Bytes(Payload(i)))
    IN  /\ phase[i] = "accumulating" => hasher[i] = single
        /\ Finished(i) /\ Manual(i) => result[i] = PayloadHasher_finish(single)

C2_Witness ==
  /\ Finished(1) /\ Manual(1)
  /\ chunks[1] = <<Str(<<112, 224, 121>>), Str(<<108, 111, 97, 100>>)>>
  /\ result[1].status = "ok"

\* C3: the one-shot hash(ct, alg, payload) returns exactly what new(ct, alg);
\* update(payload); finish() returns, and leaves no hasher or other state behind.
C3_OneShotEquivalence ==
  \A i \in Slots :
    Finished(i) /\ via[i] = "hash" =>
      /\ hasher[i] = NoHasher
      /\ Len(chunks[i]) = 1
      /\ \A j \in Slots :
           (/\ Finished(j) /\ Manual(j)
            /\ content_type[j] = content_type[i]
            /\ algorithm[j] = algorithm[i]
            /\ chunks[j] = chunks[i])
           => result[i] = result[j]

C3_Witness ==
  /\ Finished(1) /\ via[1] = "hash"
  /\ Finished(2) /\ Manual(2)
  /\ content_type[2] = content_type[1]
  /\ algorithm[2] = algorithm[1]
  /\ chunks[2] = chunks[1]
  /\ result[1].status = "ok"

\* C4: finish is a one-way, one-time transition: a hasher goes from new through
\* updates to at most one finish; once finished, no update and no finish of it is
\* enabled and nothing of it changes again.
C4_FinishIsFinal ==
  [][\A i \in Slots :
       /\ Finished(i) =>
            /\ phase'[i] = "finished"
            /\ hasher'[i] = hasher[i]
            /\ chunks'[i] = chunks[i]
            /\ result'[i] = result[i]
            /\ ~ ENABLED Finish(i)
            /\ \A data \in Chunks \cup PairChunks : ~ ENABLED Update(i, data, PairMaxUpdates + MaxUpdates)
       /\ phase[i] = "accumulating" => phase'[i] \in {"accumulating", "finished"}
       /\ phase'[i] = "unborn" => phase[i] = "unborn"
       /\ result'[i] # result[i] => phase[i] # "finished" /\ phase'[i] = "finished"]_vars

C4_Witness ==
  /\ Finished(1) /\ Manual(1)
  /\ phase[2] = "accumulating" /\ Len(chunks[2]) > 0

\* C5: while a hasher is constructed and not finalized, the bytes absorbed so far are
\* the preamble "hawk.1.payload\n" ++ ct ++ "\n" followed by the update data in call
\* order, unchanged: the preamble comes first and exactly once.
C5_PreambleThenData ==
  \A i \in Slots :
    phase[i] = "accumulating" =>
      hasher[i].context.input =
        <<104, 97, 119, 107, 46, 49, 46, 112, 97, 121, 108, 111, 97, 100, 10>>
          \o Encoded(content_type[i]) \o <<10>> \o Payload(i)

C5_Witness ==
  /\ phase[1] = "accumulating"
  /\ Len(chunks[1]) = 2
  /\ Len(Encoded(content_type[1])) > 0
  /\ Len(Encoded(chunks[1][1])) > 0 /\ Encoded(chunks[1][1]) # Encoded(chunks[1][2])

\* C6: finish never fails and returns exactly output_len bytes of the algorithm the
\* hasher was constructed with, which no operation changes, whatever the updates.
C6_OutputLength ==
  \A i \in Slots :
    /\ phase[i] = "accumulating" =>
         /\ hasher[i].algorithm = algorithm[i]
         /\ hasher[i].context.algorithm = algorithm[i]
    /\ Finished(i) =>
         /\ result[i].status = "ok"
         /\ Len(result[i].bytes) = algorithm[i].output_len

C6_Witness ==
  /\ Finished(1) /\ Manual(1)
  /\ algorithm[1] = SHA1
  /\ Payload(1) = <<>>
  /\ Len(result[1].bytes) = 20

\* C7: content-type sensitivity: for the same algorithm and payload, content types
\* that differ (even in one byte) feed different byte sequences to the digest, and
\* the digests returned differ.
C7_ContentTypeSensitivity ==
  \A i, j \in Slots :
    (/\ Finished(i) /\ Finished(j)
     /\ algorithm[i] = algorithm[j]
     /\ Payload(i) = Payload(j)
     /\ Encoded(content_type[i]) # Encoded(content_type[j]))
    => /\ result[i].fed # result[j].fed
       /\ result[i].bytes # result[j].bytes

C7_Witness ==
  /\ Finished(1) /\ Finished(2)
  /\ algorithm[1] = algorithm[2]
  /\ Payload(1) = Payload(2) /\ Payload(1) # <<>>
  /\ Encoded(content_type[1]) = <<97>> /\ Encoded(content_type[2]) = <<98>>

\* C8: determinism at byte level: independent hashers given the same content type
\* bytes, algorithm and payload bytes return the same digest, whether the payload
\* came as text or as its UTF-8 bytes, in one call or several, manually or one-shot.
C8_Determinism ==
  \A i, j \in Slots :
    (/\ Finished(i) /\ Finished(j)
     /\ algorithm[i] = algorithm[j]
     /\ Encoded(content_type[i]) = Encoded(content_type[j])
     /\ Payload(i) = Payload(j))
    => result[i] = result[j]

C8_Witness ==
  /\ Finished(1) /\ Finished(2)
  /\ algorithm[1] = algorithm[2]
  /\ content_type[1] = content_type[2]
  /\ chunks[1] = <<Str(<<224>>)>>
  /\ chunks[2] = <<Bytes(<<195, 160>>)>>
  /\ result[1].status = "ok"

\* C9: the interop fixture: content type "text/plain", SHA-256 and the payload
\* "pàyload" (UTF-8) give the 32 bytes below, by two updates, one update or hash.
FixtureDigest ==
  <<228, 238, 241, 224, 235, 114, 158, 112, 211, 254, 118, 89, 25, 236, 87, 176,
    181, 54, 61, 135, 42, 223, 188, 103, 194, 59, 83, 36, 136, 31, 198, 50>>

C9_Fixture ==
  \A i \in Slots :
    (/\ Finished(i)
     /\ Encoded(content_type[i]) = <<116, 101, 120, 116, 47, 112, 108, 97, 105, 110>>
     /\ algorithm[i] = SHA256
     /\ Payload(i) = <<112, 195, 160, 121, 108, 111, 97, 100>>)
    => result[i].status = "ok" /\ result[i].bytes = FixtureDigest

C9_Witness ==
  /\ Finished(1) /\ Manual(1)
  /\ content_type[1] = TextPlain
  /\ algorithm[1] = SHA256
  /\ chunks[1] = <<Str(<<112, 224, 121>>), Str(<<108, 111, 97, 100>>)>>
  /\ result[1].bytes = FixtureDigest

\* C10: for content types without a "\n" byte the framing is unambiguous: no other
\* pair (content type, payload) with a newline-free content type feeds the digest the
\* byte sequence this hasher fed it.
RECURSIVE ByteStrings(_, _)
ByteStrings(alphabet, n) ==
  IF n = 0 THEN {<<>>}
  ELSE LET shorter == ByteStrings(alphabet, n - 1)
       IN  shorter \cup {Append(s, b) : s \in shorter, b \in alphabet}

NewlineFree(bytes) == \A k \in 1..Len(bytes) : bytes[k] # 10
OtherContentTypes == ByteStrings({10, 97}, 2)
OtherPayloads == ByteStrings({10, 97}, 3)

C10_FramingInjective ==
  \A i \in Slots :
    Finished(i) /\ NewlineFree(Encoded(content_type[i])) =>
      \A ct \in OtherContentTypes, payload \in OtherPayloads :
        (/\ NewlineFree(ct)
         /\ FinalContext(PayloadHasher_update(PayloadHasher_new(Bytes(ct), algorithm[i]),
                                              Bytes(payload))).input = result[i].fed)
        => ct = Encoded(content_type[i]) /\ payload = Payload(i)

C10_Witness ==
  /\ Finished(1) /\ Manual(1)
  /\ Encoded(content_type[1]) = <<97>>
  /\ Payload(1) = <<10>>
  /\ result[1].fed = Canonical(<<97>>, <<10>>)
====
